---- MODULE Spec2Model ----
(***************************************************************************)
(* Model of mailst (src/mailst/main.py, sent_log.py, address.py, utils.py): *)
(* the persisted sent log, the recipient filter and the Mailer run loop.    *)
(* Strings are sequences of one-character strings, so that formatting and   *)
(* parsing of log lines and of addresses are computed as the code does.     *)
(***************************************************************************)
EXTENDS Integers, Sequences, FiniteSets, TLC

\* ------------------------------------------------------------------ bounds
MaxRecipients == 2    \* longest recipient list of a Mailer
MaxList == 1          \* longest send_only_to / exclude list given to the filter
MaxFile == 2          \* most lines the log file grows to
MaxLog == 4           \* most lines the log file grows to when only the log is used
MaxGradeLen == 3      \* longest raw grade string given to GradeColumn.grade
MaxColumns == 2       \* longest column list given to Recipient()
MaxAttach == 2        \* most file columns of a recipient

\* Python's None and a present value, for the optional values of the code
None == <<>>
Some(x) == << x >>
Val(opt) == opt[1]

\* ------------------------------------------------------------ value domains
\* Raw values of the email column: two ordinary addresses and one carrying
\* the leading blank of an untrimmed table cell (Recipient.set_column stores
\* the raw value).
Emails == { <<"a">>, <<"b">>, <<" ", "a">> }
Whitespace == { " ", "\n" }

\* ------------------------------------------------------------ string helpers
RECURSIVE lstrip(_)
lstrip(s) ==
    IF s # <<>> /\ Head(s) \in Whitespace THEN lstrip(Tail(s)) ELSE s

RECURSIVE rstrip(_)
rstrip(s) ==
    IF s # <<>> /\ s[Len(s)] \in Whitespace
    THEN rstrip(SubSeq(s, 1, Len(s) - 1))
    ELSE s

\* str.strip()
strip(s) == rstrip(lstrip(s))

\* str.split(","): the fields between the commas, empty fields kept
RECURSIVE splitFrom(_, _, _)
splitFrom(s, i, cur) ==
    IF i > Len(s) THEN << cur >>
    ELSE IF s[i] = "," THEN << cur >> \o splitFrom(s, i + 1, <<>>)
    ELSE splitFrom(s, i + 1, Append(cur, s[i]))

split(s) == splitFrom(s, 1, <<>>)

\* ",".join(parts)
RECURSIVE join(_)
join(parts) ==
    IF parts = <<>> THEN <<>>
    ELSE IF Len(parts) = 1 THEN parts[1]
    ELSE parts[1] \o <<",">> \o join(Tail(parts))

\* ------------------------------------------------------------------ sent_log
SEND == <<"s", "e", "n", "d">>
FORGET == <<"f", "o", "r", "g", "e", "t">>

\* datetime.isoformat() / datetime.fromisoformat(): a timestamp is written
\* as its digit
Digits == << "0", "1", "2", "3", "4", "5", "6", "7", "8", "9" >>
isoformat(t) == << Digits[t + 1] >>
IsIso(s) == Len(s) = 1 /\ \E t \in 0 .. 9 : Digits[t + 1] = s[1]
fromisoformat(s) == CHOOSE t \in 0 .. 9 : Digits[t + 1] = s[1]

\* the line SentLog._append_to_file writes
FormatLine(email, action, t) ==
    email \o <<",">> \o action \o <<",">> \o isoformat(t) \o <<"\n">>

\* one iteration of the loop of SentLog._load_from_file: None when the line
\* raises (wrong number of fields, unknown action, malformed timestamp)
ParseLine(line) ==
    LET fields == split(strip(line)) IN
    IF Len(fields) # 3 THEN None
    ELSE IF fields[2] \notin { SEND, FORGET } THEN None
    ELSE IF ~ IsIso(fields[3]) THEN None
    ELSE Some([ email |-> fields[1], action |-> fields[2],
                timestamp |-> fromisoformat(fields[3]) ])

\* dict operations on sent_to
DictSet(d, k, v) == [ x \in DOMAIN d \cup { k } |-> IF x = k THEN v ELSE d[x] ]
DictDel(d, k) == [ x \in DOMAIN d \ { k } |-> d[x] ]
EmptyDict == [ x \in {} |-> 0 ]

ApplyEvent(d, ev) ==
    IF ev.action = SEND THEN DictSet(d, ev.email, ev.timestamp)
    ELSE IF ev.email \in DOMAIN d THEN DictDel(d, ev.email)
    ELSE d

\* SentLog._load_from_file: replay of the lines in file order, starting from
\* the empty mapping; None when a line raises
RECURSIVE LoadFrom(_, _, _)
LoadFrom(lines, i, d) ==
    IF i > Len(lines) THEN Some(d)
    ELSE IF ParseLine(lines[i]) = None THEN None
    ELSE LoadFrom(lines, i + 1, ApplyEvent(d, Val(ParseLine(lines[i]))))

_load_from_file(lines) == LoadFrom(lines, 1, EmptyDict)

\* SentLog.__contains__
Contains(d, address) == address.email \in DOMAIN d


\* ------------------------------------------------------------------- address
\* Address.name_and_email: email.utils.formataddr((full_name, email)); the
\* names used here need no quoting
name_and_email(address) ==
    IF address.full_name = <<>> THEN address.email
    ELSE address.full_name \o <<" ", "<">> \o address.email \o <<">">>

Address(email, full_name) == [ email |-> email, full_name |-> full_name ]

\* the sender, another address to redirect to, and the carbon-copy addresses
\* of the Mailers built here
FromAddress == Address(<<"f">>, <<"F">>)
OtherAddress == Address(<<"o">>, <<>>)
CcLists == { <<>>, << Address(<<"c">>, <<>>), Address(<<"d">>, <<>>) >> }

\* ---------------------------------------------------------------- recipients
\* A recipient is its address and the result of its exclude() hook
\* (Recipient.exclude returns False; a subclass may override it).
Recipients == [ address : { Address(e, <<>>) : e \in Emails }, excluded : BOOLEAN,
                file_columns : { <<>> } ]

SeqsUpTo(S, n) == UNION { [ 1 .. k -> S ] : k \in 0 .. n }

InList(x, list) == \E i \in 1 .. Len(list) : list[i] = x

\* Selected without the test against the exclude list
Selected_IgnoringExclude(r, d, send_only_to, exclude) ==
    /\ ~ r.excluded
    /\ ~ Contains(d, r.address)
    /\ (send_only_to = <<>> \/ InList(r.address.email, send_only_to))

\* the condition of the comprehension in Mailer._filter_recipients
Selected(r, d, send_only_to, exclude) ==
    /\ ~ r.excluded
    /\ ~ Contains(d, r.address)
    /\ (send_only_to = <<>> \/ InList(r.address.email, send_only_to))
    /\ ~ InList(r.address.email, exclude)

\* Mailer._filter_recipients: the list comprehension, in list order
RECURSIVE _filter_recipients(_, _, _, _)
_filter_recipients(recipients, d, send_only_to, exclude) ==
    IF recipients = <<>> THEN <<>>
    ELSE LET rest == _filter_recipients(Tail(recipients), d, send_only_to, exclude)
         IN IF Selected(Head(recipients), d, send_only_to, exclude)
            THEN << Head(recipients) >> \o rest
            ELSE rest

\* ------------------------------------------------------------------ messages
\* AttachmentFile.as_mime_part opens the file: the parts _build_message
\* attaches, in the order of recipient.file_columns, and the file columns
\* whose file is missing
FileExists(column) == column.exists
FileMissing(column) == ~ column.exists
Attached(recipient) == SelectSeq(recipient.file_columns, FileExists)
Missing(recipient) == SelectSeq(recipient.file_columns, FileMissing)

\* _build_message never re-raising FileNotFoundError
BuildRaises_Never(recipient, error_on_missing_attachments) == FALSE

\* _build_message re-raises the FileNotFoundError of the first missing file
\* when error_on_missing_attachments is set
BuildRaises(recipient, error_on_missing_attachments) ==
    error_on_missing_attachments /\ Missing(recipient) # <<>>

\* _build_message: otherwise it prints a warning for every missing file, to
\* sys.stderr
Warning(recipient, column) ==
    << "Warning: Attachment",
       column.key \o << " " >> \o name_and_email(recipient.address) >>
Warnings(recipient) ==
    [ i \in 1 .. Len(Missing(recipient)) |->
        Warning(recipient, Missing(recipient)[i]) ]

\* _build_message attaching the Cc header in override mode too
_build_message_CcInOverride(recipient, alt_to_address, cc_addresses) ==
    [ From |-> name_and_email(FromAddress),
      Attachments |-> Attached(recipient),
      To |-> IF alt_to_address = None THEN name_and_email(recipient.address)
             ELSE name_and_email(Val(alt_to_address)),
      Cc |-> IF cc_addresses # <<>>
             THEN Some(join([ i \in 1 .. Len(cc_addresses) |->
                                name_and_email(cc_addresses[i]) ]))
             ELSE None ]

\* Mailer._build_message: the headers of the message (no attachments here)
_build_message(recipient, alt_to_address, cc_addresses) ==
    IF alt_to_address = None
    THEN [ From |-> name_and_email(FromAddress),
           Attachments |-> Attached(recipient),
           To |-> name_and_email(recipient.address),
           Cc |-> IF cc_addresses # <<>>
                  THEN Some(join([ i \in 1 .. Len(cc_addresses) |->
                                     name_and_email(cc_addresses[i]) ]))
                  ELSE None ]
    ELSE [ From |-> name_and_email(FromAddress),
           Attachments |-> Attached(recipient),
           To |-> name_and_email(Val(alt_to_address)),
           Cc |-> None ]


\* --------------------------------------------------------------- GradeColumn
\* A decimal.Decimal is NaN or the number num / 10^scale (its digits and the
\* position of its point); Python compares it exactly with an int or a float.
RECURSIVE Pow10(_)
Pow10(k) == IF k = 0 THEN 1 ELSE 10 * Pow10(k - 1)

Number(num, scale) == [ nan |-> FALSE, num |-> num, scale |-> scale ]
NaN == [ nan |-> TRUE, num |-> 0, scale |-> 0 ]
Zero == Number(0, 0)

\* a < b for two numbers
Less(a, b) == a.num * Pow10(b.scale) < b.num * Pow10(a.scale)

IsDigit(c) == \E t \in 0 .. 9 : Digits[t + 1] = c
DigitValue(c) == CHOOSE t \in 0 .. 9 : Digits[t + 1] = c

RECURSIVE DigitsValue(_)
DigitsValue(ds) ==
    IF ds = <<>> THEN 0
    ELSE 10 * DigitsValue(SubSeq(ds, 1, Len(ds) - 1)) + DigitValue(ds[Len(ds)])

\* re.sub(",", ".", value)
re_sub(s) == [ i \in 1 .. Len(s) |-> IF s[i] = "," THEN "." ELSE s[i] ]

NaNLiteral == << "N", "a", "N" >>

\* decimal.Decimal(value): None when it raises decimal.InvalidOperation. A
\* numeral is an optional sign, digits and at most one point, with at least
\* one digit; "NaN" is accepted too.
Decimal(s) ==
    IF s = NaNLiteral THEN Some(NaN)
    ELSE LET neg == s # <<>> /\ s[1] = "-"
             body == IF neg THEN Tail(s) ELSE s
             dots == { i \in 1 .. Len(body) : body[i] = "." }
             ds == SelectSeq(body, IsDigit)
         IN IF \/ Cardinality(dots) > 1
               \/ ds = <<>>
               \/ \E i \in 1 .. Len(body) : body[i] # "." /\ ~ IsDigit(body[i])
            THEN None
            ELSE Some(Number((IF neg THEN -1 ELSE 1) * DigitsValue(ds),
                             IF dots = {} THEN 0
                             ELSE Len(body) - (CHOOSE i \in dots : TRUE)))

\* what a call returns or raises
Outcome(kind, v) == [ kind |-> kind, value |-> v ]
NoResult == Outcome("none", Zero)

\* GradeColumn.grade(value). An ordering comparison of a NaN Decimal raises
\* decimal.InvalidOperation.
grade(col, v) ==
    IF v = <<>> THEN Outcome("-", Zero)
    ELSE LET parsed == Decimal(re_sub(v)) IN
         IF parsed = None THEN Outcome("ValueError: wrong decimal format", Zero)
         ELSE LET r == Val(parsed) IN
              IF col.check_max /\ col.max_grade # None /\ r.nan
              THEN Outcome("decimal.InvalidOperation", Zero)
              ELSE IF col.check_max /\ col.max_grade # None
                      /\ Less(Val(col.max_grade), r)
              THEN Outcome("ValueError: greater than maximum", Zero)
              ELSE IF col.min_grade # None /\ r.nan
              THEN Outcome("decimal.InvalidOperation", Zero)
              ELSE IF col.min_grade # None /\ Less(r, Val(col.min_grade))
              THEN Outcome("ValueError: lower than minimum", Zero)
              ELSE Outcome("Decimal", r)

\* The characters of the raw grades, and the bounds of the columns: 0 (the
\* default min_grade 0.0), 1, 1.5 and the float written 0.1. That double
\* exceeds 0.1 by less than 1e-16, so it compares with every decimal of at
\* most three fractional digits as 0.1001 does.
GradeChars == { "0", "1", "5", ",", ".", "-" }
Float01 == Number(1001, 4)
GradeBounds == { Zero, Number(1, 0), Number(15, 1), Float01 }
GradeStrings == SeqsUpTo(GradeChars, MaxGradeLen) \cup { NaNLiteral }

\* GradeColumn.__init__
GradeColumns ==
    [ key : { << "g" >> },
      max_grade : { None } \cup { Some(b) : b \in GradeBounds },
      min_grade : { None } \cup { Some(b) : b \in GradeBounds },
      check_max : BOOLEAN ]
NoColumn == [ key |-> <<>>, max_grade |-> None, min_grade |-> None,
              check_max |-> FALSE ]

\* ------------------------------------------------------- columns and Recipient
\* Column.__init__ and its subclasses: the class, the key and the two flags
\* that at most one class sets. A GradeColumn here has max_grade 1 and the
\* defaults min_grade 0.0, check_max True.
ColumnClasses == { "Column", "EmailColumn", "NameColumn", "FullNameColumn",
                   "GradeColumn", "FileColumn" }
EmailKey == << "e", "m", "a", "i", "l" >>
ColumnKeys == { EmailKey, << "k" >>, << "k", "_", "m", "a", "x" >> }
Columns == [ cls : ColumnClasses, key : ColumnKeys ]

is_email(c) == c.cls = "EmailColumn"
is_full_name(c) == c.cls = "FullNameColumn"
is_file(c) == c.cls = "FileColumn"

GradeColumnOf(c) == [ key |-> c.key, max_grade |-> Some(Number(1, 0)),
                      min_grade |-> Some(Zero), check_max |-> TRUE ]

\* the raw values of a table row: blank, "1" and "5"
RawValues == { <<>>, << "1" >>, << "5" >> }

\* as_dict raises when GradeColumn.grade does
as_dict_raises(c, v) ==
    /\ c.cls = "GradeColumn"
    /\ grade(GradeColumnOf(c), v).kind \notin { "-", "Decimal" }

\* Column.as_dict / NameColumn.as_dict / GradeColumn.as_dict /
\* FileColumn.as_dict: the items of the dict, in insertion order. A value is
\* written << how it was derived, raw value >>: the raw string itself, the
\* result of NameColumn._uncapitalize, the result of grade ("-" or a
\* Decimal), the configured max_grade, the AttachmentFile of that filename.
as_dict(c, v) ==
    IF c.cls \in { "NameColumn", "FullNameColumn" }
    THEN << << c.key, << "raw", v >> >>,
            << c.key \o << "_", "u", "n", "c", "a", "p" >>,
               << "uncapitalized", v >> >> >>
    ELSE IF c.cls = "GradeColumn"
    THEN << << c.key, << grade(GradeColumnOf(c), v).kind, v >> >>,
            << c.key \o << "_", "m", "a", "x" >>, << "max_grade", <<>> >> >> >>
    ELSE IF c.cls = "FileColumn"
    THEN << << c.key, << "AttachmentFile", v >> >> >>
    ELSE << << c.key, << "raw", v >> >> >>

\* Recipient.__init__ before the loop
NewRecipient == [ kind |-> "Recipient",
                  address |-> [ email |-> None, full_name |-> None ],
                  attrs |-> [ k \in {} |-> <<>> ],
                  file_columns |-> <<>> ]
NoRecipient == [ NewRecipient EXCEPT !.kind = "none" ]

\* the loop of Recipient.set_column: setattr for every key but "email"
RECURSIVE SetAttrs(_, _)
SetAttrs(attrs, items) ==
    IF items = <<>> THEN attrs
    ELSE SetAttrs(IF items[1][1] # EmailKey
                  THEN DictSet(attrs, items[1][1], items[1][2])
                  ELSE attrs,
                  Tail(items))

\* set_column without the bookkeeping of file columns
set_column_DroppingFiles(r, c, v) ==
    LET items == as_dict(c, v)
        last == items[Len(items)][2]
        attrs == SetAttrs(r.attrs, items)
    IN IF is_full_name(c)
       THEN [ r EXCEPT !.attrs = attrs, !.address.full_name = Some(last) ]
       ELSE IF is_email(c)
       THEN [ r EXCEPT !.attrs = attrs, !.address.email = Some(last) ]
       ELSE [ r EXCEPT !.attrs = attrs ]

\* Recipient.set_column; after its loop the name "value" is bound to the
\* last value of the dict
set_column(r, c, v) ==
    LET items == as_dict(c, v)
        last == items[Len(items)][2]
        attrs == SetAttrs(r.attrs, items)
    IN IF is_full_name(c)
       THEN [ r EXCEPT !.attrs = attrs, !.address.full_name = Some(last) ]
       ELSE IF is_email(c)
       THEN [ r EXCEPT !.attrs = attrs, !.address.email = Some(last) ]
       ELSE IF is_file(c)
       THEN [ r EXCEPT !.attrs = attrs, !.file_columns = Append(@, c) ]
       ELSE [ r EXCEPT !.attrs = attrs ]

\* the loop over zip(columns, values), from pair i on
RECURSIVE ZipFrom(_, _, _, _)
ZipFrom(r, cs, vs, i) ==
    IF i > Len(cs) \/ i > Len(vs) THEN r
    ELSE IF as_dict_raises(cs[i], vs[i]) THEN [ r EXCEPT !.kind = "raised" ]
    ELSE ZipFrom(set_column(r, cs[i], vs[i]), cs, vs, i + 1)

\* Recipient(columns, values)
Recipient(cs, vs) ==
    IF cs # <<>> /\ vs # <<>> THEN ZipFrom(NewRecipient, cs, vs, 1)
    ELSE NewRecipient

\* -------------------------------------------------------------------- output
\* a printed line: what kind of line it is and the address text it carries
Line(kind, text) == << kind, text >>

\* Mailer._print_excluded: print(...) without file=, one line for every
\* recipient whose exclude() is true, then one for every recipient in the log
RECURSIVE PrintFor(_, _, _, _)
PrintFor(recipients, d, kind, i) ==
    IF i > Len(recipients) THEN <<>>
    ELSE LET r == recipients[i]
             hit == IF kind = "Excluded: " THEN r.excluded
                    ELSE Contains(d, r.address)
         IN (IF hit THEN << Line(kind, name_and_email(r.address)) >> ELSE <<>>)
               \o PrintFor(recipients, d, kind, i + 1)

_print_excluded(recipients, d) ==
    PrintFor(recipients, d, "Excluded: ", 1)
       \o PrintFor(recipients, d, "Already sent to: ", 1)

\* send(): the line printed to sys.stderr after a message was sent or
\* simulated
Confirmation(recipient, simulate, alt_to_address) ==
    Line(IF simulate THEN "Email simulated (not sent) to:" ELSE "Email sent to:",
         IF alt_to_address = None THEN name_and_email(recipient.address)
         ELSE name_and_email(Val(alt_to_address)))

\* --------------------------------------------------------------------- state
VARIABLES
    sent_to,      \* sent_log.log.sent_to: email -> timestamp
    file,         \* the lines of .mailst-sentlog.csv, in file order
    clock,        \* the value the next datetime.datetime.now() returns
    mailer,       \* the Mailer whose run is in progress
    run,          \* the send() or test() call in progress and its arguments
    pc,           \* "idle", "loop" (in send), "quit", "test", "done", "failed";
                  \* "filtered" after a bare _filter_recipients() call
    filtered,     \* the list the loop iterates: _filter_recipients() at loop entry
    num_emails,   \* local num_emails of send() / test()
    sleeps,       \* number of time.sleep(delay) calls of this run
    connected,    \* the run holds an SMTP connection (smtplib.SMTP(...) .. quit())
    message,      \* the message _build_message returned in the last iteration
    sent_msg,     \* the message the transport accepted in the last iteration
    stdout,       \* the lines this run has printed to sys.stdout
    stderr,       \* the lines this run has printed to sys.stderr
    processed,    \* history: the recipients this run has processed, in order
    delivered,    \* history: emails delivered to at their own address and not
                  \* forgotten since
    column,       \* the GradeColumn whose grade() is called
    value,        \* the raw string passed to grade()
    result,       \* what the grade() call returned or raised
    columns,      \* the columns passed to Recipient()
    values,       \* the values passed to Recipient()
    made          \* the Recipient that Recipient() made, or the exception raised

vars == << sent_to, file, clock, mailer, run, pc, filtered, num_emails, sleeps,
           connected, message, sent_msg, stdout, stderr, processed, delivered,
           column, value, result, columns, values, made >>

logVars == << sent_to, file, clock >>
bindVars == << column, value, result, columns, values, made >>
histVars == << delivered >>
runVars == << mailer, run, pc, filtered, num_emails, sleeps, connected, message,
              sent_msg, stdout, stderr, processed >>

\* cmd_args as utils.add_cmd_arguments defines them
CmdArgs == [ send_emails : BOOLEAN, send_to_recipients : BOOLEAN,
             just_print : BOOLEAN, max_num_emails : 0 .. MaxRecipients,
             delay : { None, Some(1) } ]

\* the defaults of --max-num-emails and --delay
LoopDefaults(a) == a.max_num_emails = 0 /\ a.delay = None

\* instances of Recipient itself: exclude() is False
PlainRecipients == { r \in Recipients : ~ r.excluded }

\* Mailer.__init__. The Mailers whose process() is run:
\* (1) every combination of options, without cc and without address lists,
\* (2) every combination of the three flags, with cc addresses,
\* (3) --send-only-to and --exclude given at most once each and recipients
\*     whose exclude() may be true, really sending to the recipients.
OptionMailers ==
    [ recipients : SeqsUpTo(PlainRecipients, MaxRecipients),
      send_only_to : { <<>> }, exclude : { <<>> }, cc_addresses : { <<>> },
      error_on_missing_attachments : { TRUE },
      cmd_args : { Some(a) : a \in CmdArgs } ]

CcMailers ==
    [ recipients : SeqsUpTo(PlainRecipients, MaxRecipients),
      send_only_to : { <<>> }, exclude : { <<>> },
      cc_addresses : CcLists \ { <<>> },
      error_on_missing_attachments : { TRUE },
      cmd_args : { Some(a) : a \in { c \in CmdArgs : LoopDefaults(c) } } ]

ListMailers ==
    [ recipients : SeqsUpTo(Recipients, MaxRecipients),
      send_only_to : { <<>> } \cup { << e >> : e \in Emails },
      exclude : { <<>> } \cup { << e >> : e \in Emails },
      cc_addresses : { <<>> },
      error_on_missing_attachments : { TRUE },
      cmd_args : { Some(a) : a \in { c \in CmdArgs :
                      /\ LoopDefaults(c) /\ c.send_emails
                      /\ c.send_to_recipients /\ ~ c.just_print } } ]

Mailers == OptionMailers \cup CcMailers \cup ListMailers

\* the Mailers whose send() or test() is called directly, and the arguments
DirectMailers ==
    [ recipients : SeqsUpTo(PlainRecipients, MaxRecipients),
      send_only_to : { <<>> }, exclude : { <<>> }, cc_addresses : CcLists,
      error_on_missing_attachments : { TRUE },
      cmd_args : { None } ]

SendArgs ==
    [ op : { "send" }, by_process : { FALSE }, simulate : BOOLEAN,
      print_mails : BOOLEAN,
      alt_to_address : { None, Some(FromAddress), Some(OtherAddress) },
      max_num_emails : { 0 }, delay : { None } ]

TestArgs ==
    [ op : { "test" }, by_process : { FALSE }, simulate : { TRUE },
      print_mails : { FALSE },
      alt_to_address : { None }, max_num_emails : { 0 }, delay : { None } ]

\* the inputs of a bare _filter_recipients() call
FilterMailers ==
    [ recipients : SeqsUpTo(Recipients, MaxRecipients),
      send_only_to : SeqsUpTo(Emails, MaxList),
      exclude : SeqsUpTo(Emails, MaxList),
      cc_addresses : { <<>> }, error_on_missing_attachments : { TRUE },
      cmd_args : { None } ]

NoMailer == [ recipients |-> <<>>, send_only_to |-> <<>>, exclude |-> <<>>,
              cc_addresses |-> <<>>, error_on_missing_attachments |-> TRUE,
              cmd_args |-> None ]

\* the file columns of a recipient: the key of the column and whether the
\* file of its AttachmentFile exists at render time; two columns with the
\* same key share the attribute, hence the file
FileColumns == [ key : { << "p" >>, << "q" >> }, exists : BOOLEAN ]
FileLists ==
    { l \in SeqsUpTo(FileColumns, MaxAttach) :
        \A i, j \in 1 .. Len(l) : l[i].key = l[j].key => l[i].exists = l[j].exists }

\* the Mailers with attachments: a recipient "a", or the recipients "a" and
\* "b", each with file columns
FileRecipient(e) == [ address : { Address(e, <<>>) }, excluded : { FALSE },
                      file_columns : FileLists ]
AttachMailers ==
    [ recipients : { << a >> : a \in FileRecipient(<< "a" >>) }
                     \cup { << a, b >> : a \in FileRecipient(<< "a" >>),
                                         b \in FileRecipient(<< "b" >>) },
      send_only_to : { <<>> }, exclude : { <<>> }, cc_addresses : { <<>> },
      error_on_missing_attachments : BOOLEAN,
      cmd_args : { None } ]

AttachSendArgs ==
    [ op : { "send" }, by_process : { FALSE }, simulate : BOOLEAN,
      print_mails : { FALSE },
      alt_to_address : { None, Some(FromAddress) },
      max_num_emails : { 0 }, delay : { None } ]
NoRun == [ op |-> "none", by_process |-> FALSE, simulate |-> TRUE,
           print_mails |-> FALSE,
           alt_to_address |-> None, max_num_emails |-> 0, delay |-> None ]

\* no log file, no run in progress
Init ==
    /\ sent_to = EmptyDict
    /\ file = <<>>
    /\ clock = 0
    /\ mailer = NoMailer
    /\ run = NoRun
    /\ pc = "idle"
    /\ filtered = <<>>
    /\ num_emails = 0
    /\ sleeps = 0
    /\ connected = FALSE
    /\ message = None
    /\ sent_msg = None
    /\ stdout = <<>>
    /\ stderr = <<>>
    /\ processed = <<>>
    /\ delivered = {}
    /\ column = NoColumn
    /\ value = <<>>
    /\ result = NoResult
    /\ columns = <<>>
    /\ values = <<>>
    /\ made = NoRecipient

\* ---------------------------------------------------------------- SentLog ops
\* _append_to_file opening the file with "w": the old content is lost
_append_to_file_Truncating(lines, address, action, timestamp) ==
    << FormatLine(address.email, action, timestamp) >>

\* SentLog._append_to_file: open(LOG_FILENAME, "a"), one write, close
_append_to_file(lines, address, action, timestamp) ==
    Append(lines, FormatLine(address.email, action, timestamp))

\* add() leaving the mapping as it is
add_sent_to_Skipped(d, address, timestamp) == d

\* SentLog.add(address, timestamp): the new mapping
add_sent_to(d, address, timestamp) == DictSet(d, address.email, timestamp)

\* SentLog.forget(address) does something only for an email in sent_to
forget_applies(d, address) == address.email \in DOMAIN d

\* sent_log.log.add(address, datetime.datetime.now()) called directly, while
\* the file has fewer than n lines
AddUpTo(e, n) ==
    /\ pc = "idle"
    /\ Len(file) < n
    /\ sent_to' = add_sent_to(sent_to, Address(e, <<>>), clock)
    /\ file' = _append_to_file(file, Address(e, <<>>), SEND, clock)
    /\ clock' = clock + 1
    /\ delivered' = delivered
    /\ UNCHANGED << runVars, bindVars >>

Add(e) == AddUpTo(e, MaxFile)

\* sent_log.log.forget(address), while the file has fewer than n lines
ForgetUpTo(e, n) ==
    /\ pc = "idle"
    /\ Len(file) < n
    /\ IF forget_applies(sent_to, Address(e, <<>>))
       THEN /\ sent_to' = DictDel(sent_to, e)
            /\ file' = _append_to_file(file, Address(e, <<>>), FORGET, clock)
            /\ clock' = clock + 1
       ELSE UNCHANGED logVars
    /\ delivered' = delivered \ { e }
    /\ UNCHANGED << runVars, bindVars >>

Forget(e) == ForgetUpTo(e, MaxFile)

\* SentLog(): a new process imports sent_log and the log is read again
Load ==
    /\ pc = "idle"
    /\ _load_from_file(file) # None
    /\ sent_to' = Val(_load_from_file(file))
    /\ UNCHANGED << file, clock, histVars >>
    /\ UNCHANGED << runVars, bindVars >>

\* ------------------------------------------------------------------ Mailer run
\* process() passing no override address whatever send_to_recipients is
ProcessSendArgs_NoRedirect(cmd_args) ==
    [ op |-> "send", by_process |-> TRUE,
      simulate |-> ~ cmd_args.send_emails,
      print_mails |-> FALSE,
      alt_to_address |-> None,
      max_num_emails |-> cmd_args.max_num_emails,
      delay |-> cmd_args.delay ]

\* Mailer.process: the arguments it passes to send()
ProcessSendArgs(cmd_args) ==
    [ op |-> "send", by_process |-> TRUE,
      simulate |-> ~ cmd_args.send_emails,
      print_mails |-> FALSE,
      alt_to_address |-> IF cmd_args.send_to_recipients THEN None
                         ELSE Some(FromAddress),
      max_num_emails |-> cmd_args.max_num_emails,
      delay |-> cmd_args.delay ]

\* Mailer.process: the arguments it passes to test()
ProcessTestArgs(cmd_args) ==
    [ op |-> "test", by_process |-> TRUE, simulate |-> TRUE,
      print_mails |-> FALSE,
      alt_to_address |-> None,
      max_num_emails |-> cmd_args.max_num_emails, delay |-> None ]

\* Mailer.process: send() unless just_print
ProcessCallsSend(cmd_args) == ~ cmd_args.just_print

\* send() logging every transmitted message, redirected ones included
LogsDelivery_IgnoringOverride(simulate, alt_to_address) == ~ simulate

\* send(): add the recipient to the sent log after send_message returned
LogsDelivery(simulate, alt_to_address) == ~ simulate /\ alt_to_address = None

\* the cap test with < for <=: one recipient too many
CapReached_OffByOne(max_num_emails, n) == max_num_emails # 0 /\ max_num_emails < n

\* send() / test(): "if max_num_emails and max_num_emails <= num_emails: break"
CapReached(max_num_emails, n) == max_num_emails # 0 /\ max_num_emails <= n

\* send(): time.sleep(delay) is reached when the loop did not break
SleepsAfter(delay, max_num_emails, n) ==
    delay # None /\ ~ CapReached(max_num_emails, n)

\* Mailer.send up to the loop: _print_excluded(), smtplib.SMTP(...), which
\* connects or raises, and the list the for loop will iterate
StartSend(m, args) ==
    /\ pc = "idle"
    /\ mailer' = m
    /\ run' = args
    /\ num_emails' = 0
    /\ sleeps' = 0
    /\ message' = None
    /\ sent_msg' = None
    /\ stdout' = _print_excluded(m.recipients, sent_to)
    /\ stderr' = <<>>
    /\ processed' = <<>>
    /\ \/ /\ connected' = TRUE
          /\ filtered' = _filter_recipients(m.recipients, sent_to,
                                            m.send_only_to, m.exclude)
          /\ LogsDelivery(args.simulate, args.alt_to_address)
                => Len(file) + Len(filtered') <= MaxFile
          /\ pc' = IF filtered' = <<>> THEN "quit" ELSE "loop"
       \/ /\ connected' = FALSE
          /\ filtered' = <<>>
          /\ pc' = "failed"
    /\ UNCHANGED << logVars, histVars, bindVars >>

\* Mailer.test up to the loop: _print_excluded() and the list to iterate
StartTest(m, args) ==
    /\ pc = "idle"
    /\ mailer' = m
    /\ run' = args
    /\ num_emails' = 0
    /\ sleeps' = 0
    /\ message' = None
    /\ sent_msg' = None
    /\ stdout' = _print_excluded(m.recipients, sent_to)
    /\ stderr' = <<>>
    /\ processed' = <<>>
    /\ connected' = FALSE
    /\ filtered' = _filter_recipients(m.recipients, sent_to,
                                      m.send_only_to, m.exclude)
    /\ pc' = IF filtered' = <<>> THEN "done" ELSE "test"
    /\ UNCHANGED << logVars, histVars, bindVars >>

\* Mailer.process
Process(m) ==
    IF ProcessCallsSend(Val(m.cmd_args))
    THEN StartSend(m, ProcessSendArgs(Val(m.cmd_args)))
    ELSE StartTest(m, ProcessTestArgs(Val(m.cmd_args)))

\* sent_log.log.add / forget called on some address
LogAdd == pc = "idle" /\ \E e \in Emails : Add(e)
LogForget == pc = "idle" /\ \E e \in Emails : Forget(e)

\* a script builds a Mailer and calls its process()
Script ==
    /\ pc = "idle"
    /\ \E m \in Mailers : Process(m)

\* Mailer.send called directly
Send ==
    /\ pc = "idle"
    /\ \E m \in DirectMailers, args \in SendArgs : StartSend(m, args)

\* Mailer.test called directly
Test ==
    /\ pc = "idle"
    /\ \E m \in DirectMailers, args \in TestArgs : StartTest(m, args)

\* the end of an iteration of the loops of send() and test(): count, break
\* on the cap, sleep (send only), or leave the loop when the list is exhausted
LoopEnd(n, after) ==
    /\ num_emails' = n
    /\ sleeps' = IF run.op = "send" /\ SleepsAfter(run.delay, run.max_num_emails, n)
                 THEN sleeps + 1 ELSE sleeps
    /\ pc' = IF CapReached(run.max_num_emails, n) \/ n = Len(filtered)
             THEN after ELSE pc

\* one iteration of the loop of Mailer.send: build the message, hand it to
\* the transport unless simulating (the transport accepts it or raises), log
\* the delivery, count, break or sleep
SendOne ==
    /\ pc = "loop"
    /\ LET recipient == filtered[num_emails + 1]
           built == _build_message(recipient, run.alt_to_address,
                                   mailer.cc_addresses)
           printed == IF run.print_mails
                      THEN Append(stdout, Line("message", built.To))
                      ELSE stdout
           confirmed == stderr \o Warnings(recipient)
                          \o << Confirmation(recipient, run.simulate,
                                             run.alt_to_address) >>
       IN \/ /\ BuildRaises(recipient, mailer.error_on_missing_attachments)
             /\ message' = None          \* _build_message raises
             /\ sent_msg' = None
             /\ pc' = "failed"
             /\ UNCHANGED << logVars, histVars, num_emails, sleeps, stdout,
                             stderr, processed >>
          \/ /\ ~ BuildRaises(recipient, mailer.error_on_missing_attachments)
             /\ run.simulate
             /\ message' = Some(built)
             /\ stdout' = printed
             /\ sent_msg' = None
             /\ stderr' = confirmed
             /\ processed' = Append(processed, recipient)
             /\ UNCHANGED << logVars, histVars >>
             /\ LoopEnd(num_emails + 1, "quit")
          \/ /\ ~ BuildRaises(recipient, mailer.error_on_missing_attachments)
             /\ ~ run.simulate           \* send_message returns
             /\ message' = Some(built)
             /\ stdout' = printed
             /\ sent_msg' = Some(built)
             /\ stderr' = confirmed
             /\ processed' = Append(processed, recipient)
             /\ IF LogsDelivery(run.simulate, run.alt_to_address)
                THEN /\ sent_to' = add_sent_to(sent_to, recipient.address, clock)
                     /\ file' = _append_to_file(file, recipient.address,
                                                SEND, clock)
                     /\ clock' = clock + 1
                     /\ delivered' = delivered \cup { recipient.address.email }
                ELSE UNCHANGED << logVars, histVars >>
             /\ LoopEnd(num_emails + 1, "quit")
          \/ /\ ~ BuildRaises(recipient, mailer.error_on_missing_attachments)
             /\ ~ run.simulate           \* send_message raises
             /\ message' = Some(built)
             /\ stdout' = printed
             /\ sent_msg' = None
             /\ stderr' = stderr \o Warnings(recipient)
             /\ pc' = "failed"
             /\ UNCHANGED << logVars, histVars, num_emails, sleeps, processed >>
    /\ UNCHANGED << mailer, run, filtered, connected, bindVars >>

\* smtp_client.quit() and the return of send()
SendQuit ==
    /\ pc = "quit"
    /\ pc' = "done"
    /\ connected' = FALSE
    /\ UNCHANGED << logVars, histVars, mailer, run, filtered, num_emails, sleeps,
                    message, sent_msg, stdout, stderr, processed, bindVars >>

\* one iteration of the loop of Mailer.test: print the summary, count, break
TestOne ==
    /\ pc = "test"
    /\ IF BuildRaises(filtered[num_emails + 1], mailer.error_on_missing_attachments)
       THEN /\ pc' = "failed"            \* _build_test_message raises
            /\ UNCHANGED << num_emails, sleeps, stdout, processed >>
       ELSE /\ processed' = Append(processed, filtered[num_emails + 1])
            /\ stdout' = stdout \o
                  << Line("summary",
                          name_and_email(filtered[num_emails + 1].address)),
                     Line("", <<>>) >>
            /\ LoopEnd(num_emails + 1, "done")
    /\ UNCHANGED << logVars, histVars, mailer, run, filtered, connected,
                    message, sent_msg, stderr, bindVars >>

\* the caller gets control back: the call returned or raised
Return ==
    /\ pc \in { "done", "failed" }
    /\ pc' = "idle"
    /\ mailer' = NoMailer
    /\ run' = NoRun
    /\ filtered' = <<>>
    /\ num_emails' = 0
    /\ sleeps' = 0
    /\ connected' = FALSE
    /\ message' = None
    /\ sent_msg' = None
    /\ stdout' = <<>>
    /\ stderr' = <<>>
    /\ processed' = <<>>
    /\ UNCHANGED << logVars, histVars, bindVars >>

Next ==
    \/ LogAdd
    \/ LogForget
    \/ Load
    \/ Script
    \/ Send
    \/ Test
    \/ SendOne
    \/ SendQuit
    \/ TestOne
    \/ Return

Spec == Init /\ [][Next]_vars

\* ------------------------------------------------- _filter_recipients alone
\* a log as add() leaves it: one send per email of the set S, in some order
RECURSIVE OrderOf(_)
OrderOf(S) ==
    IF S = {} THEN <<>>
    ELSE LET e == CHOOSE x \in S : TRUE IN << e >> \o OrderOf(S \ { e })

IndexIn(seq, x) == CHOOSE i \in 1 .. Len(seq) : seq[i] = x

\* a Mailer is built while the log holds sends for some emails
InitFilter ==
    /\ \E S \in SUBSET Emails :
          /\ sent_to = [ e \in S |-> IndexIn(OrderOf(S), e) - 1 ]
          /\ file = [ i \in 1 .. Cardinality(S) |->
                        FormatLine(OrderOf(S)[i], SEND, i - 1) ]
          /\ clock = Cardinality(S)
          /\ delivered = S
    /\ mailer \in FilterMailers
    /\ run = NoRun
    /\ pc = "idle"
    /\ filtered = <<>>
    /\ num_emails = 0
    /\ sleeps = 0
    /\ connected = FALSE
    /\ message = None
    /\ sent_msg = None
    /\ stdout = <<>>
    /\ stderr = <<>>
    /\ processed = <<>>
    /\ column = NoColumn
    /\ value = <<>>
    /\ result = NoResult
    /\ columns = <<>>
    /\ values = <<>>
    /\ made = NoRecipient

\* Mailer._filter_recipients()
Filter ==
    /\ pc = "idle"
    /\ filtered' = _filter_recipients(mailer.recipients, sent_to,
                                      mailer.send_only_to, mailer.exclude)
    /\ pc' = "filtered"
    /\ UNCHANGED << logVars, histVars, mailer, run, num_emails, sleeps,
                    connected, message, sent_msg, stdout, stderr, processed,
                    bindVars >>

NextFilter == Filter

SpecFilter == InitFilter /\ [][NextFilter]_vars

\* ------------------------------------------------------- GradeColumn.grade alone
\* a GradeColumn has been built and a raw value is at hand
InitGrade ==
    /\ sent_to = EmptyDict
    /\ file = <<>>
    /\ clock = 0
    /\ delivered = {}
    /\ mailer = NoMailer
    /\ run = NoRun
    /\ pc = "idle"
    /\ filtered = <<>>
    /\ num_emails = 0
    /\ sleeps = 0
    /\ connected = FALSE
    /\ message = None
    /\ sent_msg = None
    /\ stdout = <<>>
    /\ stderr = <<>>
    /\ processed = <<>>
    /\ column \in GradeColumns
    /\ value \in GradeStrings
    /\ result = NoResult
    /\ columns = <<>>
    /\ values = <<>>
    /\ made = NoRecipient

\* column.grade(value)
Grade ==
    /\ result = NoResult
    /\ result' = grade(column, value)
    /\ UNCHANGED << logVars, histVars, runVars, column, value,
                    columns, values, made >>

NextGrade == Grade

SpecGrade == InitGrade /\ [][NextGrade]_vars

\* ------------------------------------------------------------ Recipient() alone
\* a row of a table and the columns of the table
InitBind ==
    /\ sent_to = EmptyDict
    /\ file = <<>>
    /\ clock = 0
    /\ delivered = {}
    /\ mailer = NoMailer
    /\ run = NoRun
    /\ pc = "idle"
    /\ filtered = <<>>
    /\ num_emails = 0
    /\ sleeps = 0
    /\ connected = FALSE
    /\ message = None
    /\ sent_msg = None
    /\ stdout = <<>>
    /\ stderr = <<>>
    /\ processed = <<>>
    /\ column = NoColumn
    /\ value = <<>>
    /\ result = NoResult
    /\ columns \in SeqsUpTo(Columns, MaxColumns)
    /\ values \in SeqsUpTo(RawValues, MaxColumns + 1)
    /\ made = NoRecipient

\* Recipient(columns, values)
Construct ==
    /\ made = NoRecipient
    /\ made' = Recipient(columns, values)
    /\ UNCHANGED << logVars, histVars, runVars, column, value, result,
                    columns, values >>

NextBind == Construct

SpecBind == InitBind /\ [][NextBind]_vars

\* ------------------------------------------------------------ the sent log alone
\* scripts that only add to the log, forget and restart
AddLog == pc = "idle" /\ \E e \in Emails : AddUpTo(e, MaxLog)
ForgetLog == pc = "idle" /\ \E e \in Emails : ForgetUpTo(e, MaxLog)

NextLog ==
    \/ AddLog
    \/ ForgetLog
    \/ Load

SpecLog == Init /\ [][NextLog]_vars

\* ------------------------------------------------------ runs with attachments
\* Mailer.send / Mailer.test of a Mailer whose recipients have file columns
SendFiles ==
    /\ pc = "idle"
    /\ \E m \in AttachMailers, args \in AttachSendArgs : StartSend(m, args)

TestFiles ==
    /\ pc = "idle"
    /\ \E m \in AttachMailers, args \in TestArgs : StartTest(m, args)

NextAttach ==
    \/ SendFiles
    \/ TestFiles
    \/ SendOne
    \/ SendQuit
    \/ TestOne
    \/ Return

SpecAttach == Init /\ [][NextAttach]_vars

\* ===================================================================== claims
Range(seq) == { seq[i] : i \in 1 .. Len(seq) }
Min(a, b) == IF a <= b THEN a ELSE b
IsPrefix(s, t) == Len(s) <= Len(t) /\ SubSeq(t, 1, Len(s)) = s

\* a step of a send() or test() call, its start and its return included
MailerStep == pc # "idle" \/ pc' # "idle"

\* the step is the start of a run: _filter_recipients() was just evaluated
RunStart == pc = "idle" /\ pc' \in { "loop", "quit", "test", "done" }

\* the step is an iteration of send() in which the transport accepted the
\* message
Accepted == pc = "loop" /\ num_emails' = num_emails + 1 /\ sent_msg' # None

\* the recipient the last iteration of the loop worked on
LastRecipient ==
    IF pc = "failed" THEN filtered[num_emails + 1] ELSE filtered[num_emails]

\* ---- C1
\* the four conditions of the claim for the i-th recipient of the Mailer
C1_Keep(i) ==
    LET r == mailer.recipients[i] IN
    /\ r.excluded = FALSE
    /\ r.address.email \notin DOMAIN sent_to
    /\ (Len(mailer.send_only_to) = 0
          \/ r.address.email \in Range(mailer.send_only_to))
    /\ r.address.email \notin Range(mailer.exclude)

C1_KeptIndexes == { i \in 1 .. Len(mailer.recipients) : C1_Keep(i) }

\* C1: _filter_recipients returns exactly the recipients that satisfy the
\* four conditions, in input order: its k-th element is the recipient at the
\* k-th smallest index satisfying them, and it has no other element.
C1_FilterExact ==
    pc = "filtered" =>
       /\ Len(filtered) = Cardinality(C1_KeptIndexes)
       /\ \A k \in 1 .. Len(filtered) :
             \E i \in C1_KeptIndexes :
                /\ Cardinality({ j \in C1_KeptIndexes : j <= i }) = k
                /\ filtered[k] = mailer.recipients[i]

\* a recipient that is in both send_only_to and exclude, and neither excluded
\* by its hook nor in the log, is dropped, while the list had two recipients
C1_Witness ==
    /\ pc = "filtered"
    /\ Len(mailer.recipients) = 2
    /\ \E i \in 1 .. 2 :
          LET r == mailer.recipients[i] IN
          /\ ~ r.excluded
          /\ r.address.email \notin DOMAIN sent_to
          /\ r.address.email \in Range(mailer.send_only_to)
          /\ r.address.email \in Range(mailer.exclude)
          /\ r \notin Range(filtered)

\* ---- C2
\* C2: a recipient delivered to at its own address by a non-simulated run is
\* excluded by every later filtered run (until forgotten), and after
\* forget(r.address) its email is out of the log, so that the next filtered
\* run selects it when the other filter conditions hold.
C2_DeliveredExcludedUntilForgotten ==
    [][ /\ RunStart =>
            /\ \A i \in 1 .. Len(filtered') :
                  filtered'[i].address.email \notin delivered
            /\ \A i \in 1 .. Len(mailer'.recipients) :
                  LET r == mailer'.recipients[i] IN
                  ( /\ r.address.email \notin delivered
                    /\ r.address.email \notin DOMAIN sent_to
                    /\ ~ r.excluded
                    /\ (mailer'.send_only_to = <<>>
                          \/ r.address.email \in Range(mailer'.send_only_to))
                    /\ r.address.email \notin Range(mailer'.exclude) )
                  => r \in Range(filtered')
        /\ \A e \in Emails :
              (pc = "idle" /\ pc' = "idle" /\ e \in delivered /\ e \notin delivered')
                 => e \notin DOMAIN sent_to'
      ]_vars

\* ---- C3
\* C3: in a step of send() or test(), the sent log (mapping and file) changes
\* if and only if the run is not simulated, has no override address and the
\* transport accepted the recipient's message in this step; the change is
\* then one send event for that recipient, in the mapping and in the file.
C3_LogChangesOnlyOnRealDelivery ==
    [][ MailerStep =>
          IF Accepted /\ ~ run.simulate /\ run.alt_to_address = None
          THEN LET email == filtered[num_emails + 1].address.email IN
               /\ file' = Append(file, FormatLine(email, SEND, clock))
               /\ DOMAIN sent_to' = DOMAIN sent_to \cup { email }
               /\ sent_to'[email] = clock
               /\ \A x \in DOMAIN sent_to \ { email } : sent_to'[x] = sent_to[x]
          ELSE sent_to' = sent_to /\ file' = file
      ]_vars

\* a real run without override has just logged the recipient it delivered to
C3_Witness ==
    /\ run.op = "send" /\ ~ run.simulate /\ run.alt_to_address = None
    /\ pc \in { "loop", "quit" }
    /\ sent_msg # None
    /\ file # <<>>
    /\ file[Len(file)] = FormatLine(filtered[num_emails].address.email, SEND,
                                    clock - 1)

\* ---- C4
\* C4: a message built by send() in override mode has To equal to the
\* override address and no Cc header, so it is addressed neither to a
\* recipient nor to a cc address; without override To is the recipient's
\* address and Cc lists the cc addresses, comma separated, when there are any.
C4_OverrideHeaders ==
    message # None =>
       LET m == Val(message) IN
       IF run.alt_to_address # None
       THEN /\ m.To = name_and_email(Val(run.alt_to_address))
            /\ m.Cc = None
            /\ m.To \notin { name_and_email(r.address) : r \in Range(mailer.recipients) }
            /\ m.To \notin { name_and_email(a) : a \in Range(mailer.cc_addresses) }
       ELSE /\ m.To = name_and_email(LastRecipient.address)
            /\ IF Len(mailer.cc_addresses) > 0
               THEN /\ m.Cc # None
                    /\ split(Val(m.Cc)) =
                          [ i \in 1 .. Len(mailer.cc_addresses) |->
                              name_and_email(mailer.cc_addresses[i]) ]
               ELSE m.Cc = None

\* a message was built in override mode by a Mailer that has cc addresses
C4_Witness ==
    /\ message # None
    /\ run.alt_to_address # None
    /\ mailer.cc_addresses # <<>>

\* ---- C5
\* C5: in a run started by process(): a message transmitted to a recipient's
\* own address implies send_emails, send_to_recipients and not just_print;
\* with send_emails and without send_to_recipients every transmitted message
\* goes to the From address; without send_emails nothing is transmitted; with
\* just_print no connection is open and nothing is transmitted.
C5_ProcessGating ==
    run.by_process =>
       LET a == Val(mailer.cmd_args) IN
       /\ ( /\ sent_msg # None
            /\ Val(sent_msg).To \in
                  { name_and_email(r.address) : r \in Range(mailer.recipients) } )
             => (a.send_emails /\ a.send_to_recipients /\ ~ a.just_print)
       /\ (sent_msg # None /\ a.send_emails /\ ~ a.send_to_recipients)
             => Val(sent_msg).To = name_and_email(FromAddress)
       /\ ~ a.send_emails => sent_msg = None
       /\ a.just_print => (~ connected /\ sent_msg = None)

\* process() with send_emails and without send_to_recipients transmitted a
\* message
C5_Witness ==
    /\ run.by_process
    /\ Val(mailer.cmd_args).send_emails
    /\ ~ Val(mailer.cmd_args).send_to_recipients
    /\ sent_msg # None

\* ---- C6
\* C6: a run of send() or test() never processes anything but a prefix of the
\* filtered list, and when it has left its loop without an error it has
\* processed exactly the first min(N, number of filtered recipients)
\* recipients for N = max_num_emails > 0, and all of them for N = 0.
C6_CapPrefix ==
    /\ IsPrefix(processed, filtered)
    /\ pc \in { "quit", "done" } =>
          processed = SubSeq(filtered, 1,
                             IF run.max_num_emails > 0
                             THEN Min(run.max_num_emails, Len(filtered))
                             ELSE Len(filtered))

\* a run capped at one recipient ended with the second one unprocessed
C6_Witness ==
    /\ pc = "done"
    /\ run.max_num_emails = 1
    /\ Len(filtered) = 2
    /\ processed = << filtered[1] >>

\* ---- C7
\* C7: a send() run with a delay that processed k >= 1 messages has slept
\* exactly k-1 times when it leaves the loop, cap hit or not.
C7_SleepsBetweenOnly ==
    ( /\ pc \in { "quit", "done" }
      /\ run.op = "send"
      /\ run.delay # None
      /\ num_emails >= 1 )
       => sleeps = num_emails - 1

\* ---- C8
\* C8: the in-memory mapping equals the mapping obtained by replaying the
\* log file from the start.
C8_MemoryIsReplayOfFile ==
    /\ _load_from_file(file) # None
    /\ sent_to = Val(_load_from_file(file))

\* ---- C9
\* the line is one complete event: it ends with its newline, holds no other
\* newline, and parses
C9_WholeEvent(line) ==
    /\ line # <<>>
    /\ line[Len(line)] = "\n"
    /\ \A j \in 1 .. Len(line) - 1 : line[j] # "\n"
    /\ ParseLine(line) # None

\* C9: in every step (load, add, forget, and every step of send and test)
\* the file before the step is a prefix of the file after it, and what the
\* step adds is at most one line, a whole event. The file starts empty, so
\* between any two steps it is a sequence of whole events.
C9_AppendOnly ==
    [][ /\ IsPrefix(file, file')
        /\ Len(file') <= Len(file) + 1
        /\ \A i \in Len(file) + 1 .. Len(file') : C9_WholeEvent(file'[i])
      ]_vars

\* a run is between two iterations, the first of which appended its event
C9_Witness ==
    /\ pc = "loop"
    /\ sent_msg # None
    /\ Len(file) >= 1
    /\ num_emails >= 1
    /\ LogsDelivery(run.simulate, run.alt_to_address)

\* ---- C10
\* C10: across non-simulated runs without override, an email that has been
\* delivered to (and not forgotten since) is never delivered to again, be it
\* in a later run or later in the list of the same run.
C10_DeliveredAtMostOnce ==
    [][ (Accepted /\ ~ run.simulate /\ run.alt_to_address = None)
           => filtered[num_emails + 1].address.email \notin delivered
      ]_vars

\* ---- C11
\* v >= b and v <= b for a parsed value v (false when v is NaN) and a bound b
C11_Geq(v, b) == ~ v.nan /\ ~ Less(v, b)
C11_Leq(v, b) == ~ v.nan /\ ~ Less(b, v)

\* the range condition of the claim
C11_InRange(v) ==
    /\ (column.min_grade = None \/ C11_Geq(v, Val(column.min_grade)))
    /\ (~ column.check_max \/ column.max_grade = None
          \/ C11_Leq(v, Val(column.max_grade)))

\* C11: grade("") is the sentinel "-"; for any other parseable raw value
\* (comma read as the decimal point) the call returns the parsed value when
\* it is within the configured bounds, bounds included, and otherwise fails
\* with an out-of-range error.
C11_GradeContract ==
    result.kind # "none" =>
       IF value = <<>> THEN result.kind = "-"
       ELSE Decimal(re_sub(value)) # None =>
               LET v == Val(Decimal(re_sub(value))) IN
               IF C11_InRange(v)
               THEN result = Outcome("Decimal", v)
               ELSE result.kind \in { "ValueError: greater than maximum",
                                      "ValueError: lower than minimum" }

\* ---- C15
\* the pairs Recipient() is to process, and the keys the i-th one produces
C15_Pairs == 1 .. Min(Len(columns), Len(values))
C15_Keys(i) ==
    { as_dict(columns[i], values[i])[j][1] :
         j \in 1 .. Len(as_dict(columns[i], values[i])) }

\* the value the last pair producing key k gives it
C15_LastValue(k) ==
    LET i == CHOOSE x \in C15_Pairs :
                /\ k \in C15_Keys(x)
                /\ \A y \in C15_Pairs : k \in C15_Keys(y) => y <= x
        items == as_dict(columns[i], values[i])
        j == CHOOSE x \in 1 .. Len(items) : items[x][1] = k
    IN items[j][2]

\* Address.email is the raw value of the (last) email column processed, and
\* file_columns lists the file columns processed, in order, duplicates kept
C15_AddressAndFiles ==
    /\ IF \E i \in C15_Pairs : is_email(columns[i])
       THEN LET i == CHOOSE x \in C15_Pairs :
                        /\ is_email(columns[x])
                        /\ \A y \in C15_Pairs : is_email(columns[y]) => y <= x
            IN made.address.email = Some(<< "raw", values[i] >>)
       ELSE made.address.email = None
    /\ made.file_columns =
          SelectSeq(SubSeq(columns, 1, Min(Len(columns), Len(values))), is_file)

\* the attribute mapping has exactly the keys of the set, each with the value
\* of the last pair producing it
C15_AttrsAre(keys) ==
    /\ DOMAIN made.attrs = keys
    /\ \A k \in keys : made.attrs[k] = C15_LastValue(k)

C16_StrayForget(i) ==
    LET ev == Val(ParseLine(file[i]))
        before == Val(_load_from_file(SubSeq(file, 1, i - 1)))
    IN ev.action = FORGET /\ ev.email \notin DOMAIN before

\* C16: forget(a) removes a's email from the mapping and appends one forget
\* event when the email is in the mapping, and changes neither the mapping
\* nor the file when it is not; and every forget line of the file is
\* preceded by a send line for the same email that no earlier forget has
\* cancelled.
C16_ForgetOnlyOutstanding ==
    /\ [][ \A e \in Emails :
             ForgetUpTo(e, MaxLog) =>
                IF e \in DOMAIN sent_to
                THEN /\ file' = Append(file, FormatLine(e, FORGET, clock))
                     /\ DOMAIN sent_to' = DOMAIN sent_to \ { e }
                     /\ \A x \in DOMAIN sent_to' : sent_to'[x] = sent_to[x]
                ELSE sent_to' = sent_to /\ file' = file
         ]_vars
    /\ [] (\A i \in 1 .. Len(file) : ~ C16_StrayForget(i))

\* ---- C14
\* a non-simulated send() to the recipients themselves is in progress or
\* has just ended
C14_RealRun == run.op = "send" /\ ~ run.simulate /\ run.alt_to_address = None

\* C14: in a non-simulated run to the real recipients, whenever the run is
\* about to hand a message to the transport, or has stopped, the k messages
\* it has delivered are logged: their emails are in the mapping and the last
\* k lines of the file are their send events, in filtered order. A step in
\* which the transport fails logs nothing and counts nothing, and after it
\* the run does nothing but return to its caller: no other recipient is
\* attempted, the log stays as it is.
C14_LoggedBeforeNextAndAbort ==
    /\ [] ( (C14_RealRun /\ pc \in { "loop", "quit", "done", "failed" }) =>
              /\ Len(file) >= num_emails
              /\ \A i \in 1 .. num_emails :
                    /\ filtered[i].address.email \in DOMAIN sent_to
                    /\ file[Len(file) - num_emails + i] =
                          FormatLine(filtered[i].address.email, SEND,
                                     clock - num_emails + i - 1) )
    /\ [][ /\ (C14_RealRun /\ pc = "loop" /\ pc' = "failed") =>
                 /\ file' = file /\ sent_to' = sent_to
                 /\ num_emails' = num_emails /\ processed' = processed
                 /\ sent_msg' = None
           /\ (C14_RealRun /\ pc = "loop") =>
                 Len(file') = Len(file) + (IF Accepted THEN 1 ELSE 0)
           /\ pc = "failed" =>
                 /\ pc' = "idle"
                 /\ file' = file /\ sent_to' = sent_to
                 /\ sent_msg' = None
         ]_vars

\* the transport failed on the second of two filtered recipients; the first
\* one is logged, the second is not
C14_Witness ==
    /\ C14_RealRun
    /\ pc = "failed"
    /\ Len(filtered) = 2
    /\ num_emails = 1
    /\ filtered[2].address.email \notin DOMAIN sent_to
    /\ file[Len(file)] = FormatLine(filtered[1].address.email, SEND, clock - 1)

\* ---- C13
\* the kinds of diagnostic lines and of rendered output
C13_Diagnostics == { "Excluded: ", "Already sent to: ", "Email sent to:",
                     "Email simulated (not sent) to:", "Warning: Attachment" }
C13_Rendered == { "message", "summary", "" }

\* C13: in every run of send or test, the stream that carries the rendered
\* messages (sys.stdout) holds rendered output only, and the diagnostic
\* stream (sys.stderr) holds diagnostics only.
C13_StreamsSeparate ==
    /\ \A i \in 1 .. Len(stdout) : stdout[i][1] \in C13_Rendered
    /\ \A i \in 1 .. Len(stderr) : stderr[i][1] \in C13_Diagnostics

\* ---- C12
\* the file columns of a recipient from the i-th on whose file exists, found
\* one column at a time
RECURSIVE C12_KeptFrom(_, _)
C12_KeptFrom(cols, i) ==
    IF i > Len(cols) THEN <<>>
    ELSE (IF cols[i].exists THEN << cols[i] >> ELSE <<>>)
            \o C12_KeptFrom(cols, i + 1)

\* the iteration of send() that is about to work on a recipient with a
\* missing file
C12_MissingNext ==
    /\ run.op = "send"
    /\ pc = "loop"
    /\ \E i \in 1 .. Len(filtered[num_emails + 1].file_columns) :
          ~ filtered[num_emails + 1].file_columns[i].exists

\* C12: when send() reaches a recipient one of whose files is missing, then
\* with error_on_missing_attachments set the run stops in that iteration:
\* nothing is handed to the transport, the log and its file stay as they are
\* and the recipient is not in the log; with the flag unset the message is
\* built with exactly the attachments whose files exist, in file-column
\* order, a warning naming each missing column and the recipient is written
\* to stderr, and the message handed to the transport is that message, the
\* delivery being logged as for any other recipient.
C12_MissingAttachment ==
    [][ C12_MissingNext =>
          LET recipient == filtered[num_emails + 1] IN
          IF mailer.error_on_missing_attachments
          THEN /\ pc' = "failed"
               /\ sent_msg' = None
               /\ num_emails' = num_emails
               /\ file' = file
               /\ sent_to' = sent_to
               /\ recipient.address.email \notin DOMAIN sent_to'
          ELSE /\ message' # None
               /\ Val(message').Attachments = C12_KeptFrom(recipient.file_columns, 1)
               /\ \A i \in 1 .. Len(recipient.file_columns) :
                     ~ recipient.file_columns[i].exists =>
                        \E j \in Len(stderr) + 1 .. Len(stderr') :
                           stderr'[j] = << "Warning: Attachment",
                                           recipient.file_columns[i].key \o << " " >>
                                             \o name_and_email(recipient.address) >>
               /\ (~ run.simulate /\ pc' # "failed") =>
                     /\ sent_msg' = message'
                     /\ num_emails' = num_emails + 1
                     /\ (run.alt_to_address = None =>
                           /\ recipient.address.email \in DOMAIN sent_to'
                           /\ file' = Append(file, FormatLine(recipient.address.email,
                                                              SEND, clock)))
               /\ run.simulate => (sent_msg' = None /\ pc' # "failed")
      ]_vars

\* a real run with error_on_missing_attachments unset has delivered and
\* logged a message to a recipient with two file columns, the first missing:
\* the message carries the second file only and stderr holds the warning
C12_Witness ==
    /\ run.op = "send" /\ ~ run.simulate /\ run.alt_to_address = None
    /\ ~ mailer.error_on_missing_attachments
    /\ pc \in { "loop", "quit" }
    /\ num_emails >= 1
    /\ sent_msg # None
    /\ Len(filtered[num_emails].file_columns) = 2
    /\ ~ filtered[num_emails].file_columns[1].exists
    /\ filtered[num_emails].file_columns[2].exists
    /\ Val(sent_msg).Attachments = << filtered[num_emails].file_columns[2] >>
    /\ \E j \in 1 .. Len(stderr) : stderr[j][1] = "Warning: Attachment"
    /\ filtered[num_emails].address.email \in DOMAIN sent_to

====
